---- MODULE Spec2Model ----
(***************************************************************************)
(* A model of rsa/key.py: RSA key generation (newkeys, gen_keys, find_p_q, *)
(* calculate_keys, extended_gcd), the PublicKey / PrivateKey entities and  *)
(* their PKCS#1 DER / PEM serialisation and format dispatch.               *)
(*                                                                         *)
(* Three specifications share the module:                                  *)
(*   Spec      - one call of newkeys(nbits, accurate), stepped through     *)
(*               find_p_q's resampling loop against the prime oracle;      *)
(*   SpecMath  - calls of the pure functions extended_gcd, calculate_keys; *)
(*   SpecCodec - key construction, save_pkcs1, load_pkcs1.                 *)
(***************************************************************************)
EXTENDS Integers, Sequences, FiniteSets, TLC

VARIABLES
    \* ---- newkeys / gen_keys / find_p_q call (Spec) ----
    pc,           \* position inside the newkeys call
    nk_nbits,     \* newkeys' argument nbits
    nk_accurate,  \* newkeys' argument accurate
    nbits,        \* find_p_q's parameter nbits
    accurate,     \* find_p_q's parameter accurate
    p, q,         \* find_p_q's locals, then gen_keys' (p, q)
    change_p,     \* find_p_q's flag
    tries,        \* find_p_q's counter
    log,          \* the last message handed to log.debug
    e, d,         \* calculate_keys' result
    pub, priv,    \* the keys newkeys returns
    raised,       \* the exception the call ended with ("" when none)
    \* ---- pure function calls (SpecMath) ----
    fn, args,     \* the function called and its arguments
    called,       \* whether the call has been made
    ret,          \* what it returned
    \* ---- key objects and files (SpecCodec) ----
    cpc,          \* what the caller has done so far
    cargs,        \* the arguments the key object was constructed with
    key,          \* the key object in memory
    keyfile,      \* the contents of the key file
    fileInts,     \* the integers a file received from outside was made of
    savedAs,      \* the format selector of the save that wrote keyfile
    call,         \* the last load_pkcs1 / save_pkcs1 call: class and selector
    method,       \* the method that call dispatched to ("" when none)
    loaded,       \* the key load_pkcs1 returned
    cerr          \* the exception the last codec call raised ("" when none)

genVars   == <<pc, nk_nbits, nk_accurate, nbits, accurate, p, q, change_p,
               tries, log, e, d, pub, priv, raised>>
mathVars  == <<fn, args, called, ret>>
codecVars == <<cpc, cargs, key, keyfile, fileInts, savedAs, call, method,
               loaded, cerr>>
vars      == <<genVars, mathVars, codecVars>>

\* ------------------------------------------------------------------ bounds
\* newkeys is called with nbits in (MinKeyBits - 1)..MaxNbits
MaxNbits == 17
\* find_p_q's loop is followed for at most MaxTries iterations
MaxTries == 3

\* extended_gcd is called with a, b in 1..MaxGcdArg
MaxGcdArg == 120
\* calculate_keys is called with the primes up to MaxCalcPrime (and BigPrime)
MaxCalcPrime == 300

\* a received private-key file carries a version in 0..MaxVersion
MaxVersion == 2

\* the smallest key size newkeys accepts
MinKeyBits == 16

\* Python's None in the optional arguments exp1, exp2, coef of
\* PrivateKey.__init__ (all real field values are unsigned integers)
None == -1

\* ------------------------------------------------------- collaborators
\* e, the public exponent calculate_keys fixes
E == 65537

\* rsa.common.bit_size: the number of bits needed to hold a positive number
RECURSIVE bit_size(_)
bit_size(n) == IF n <= 0 THEN 0 ELSE 1 + bit_size(n \div 2)

IsPrime(n) == n >= 2 /\ \A k \in 2..n-1 : (k * k > n) \/ (n % k # 0)

\* 2^k
RECURSIVE Pow2(_)
Pow2(k) == IF k = 0 THEN 1 ELSE 2 * Pow2(k - 1)

\* the primes of exactly b bits, for every bit length a call can ask for
PrimesOfBits ==
    [b \in 1..(MaxNbits \div 2 + MaxNbits \div 32) |->
        {n \in Pow2(b - 1)..(Pow2(b) - 1) : IsPrime(n)}]

\* rsa.prime.getprime(nbits): the prime oracle; any prime of exactly nbits bits
getprime(b) == PrimesOfBits[b]

\* ------------------------------------------------------- extended_gcd
\* the while loop of extended_gcd: state (a, b, x, y, lx, ly)
RECURSIVE egcd_loop(_, _, _, _, _, _)
egcd_loop(a, b, x, y, lx, ly) ==
    IF b = 0 THEN <<a, lx, ly>>
    ELSE LET quot == a \div b
         IN  egcd_loop(b, a % b, lx - (quot * x), ly - (quot * y), x, y)

\* the coefficients before normalisation (lx, ly when the loop ends)
egcd_raw(a, b) == egcd_loop(a, b, 0, 1, 1, 0)

\* extended_gcd returning the loop's coefficients as they are
extended_gcd_nonorm(a, b) == egcd_raw(a, b)

\* extended_gcd wrapping each coefficient modulo the wrong original
extended_gcd_swapped_wrap(a, b) ==
    LET r   == egcd_raw(a, b)
        lx1 == IF r[2] < 0 THEN r[2] + a ELSE r[2]
        ly1 == IF r[3] < 0 THEN r[3] + b ELSE r[3]
    IN  <<r[1], lx1, ly1>>

extended_gcd(a, b) ==
    LET r   == egcd_raw(a, b)
        lx1 == IF r[2] < 0 THEN r[2] + b ELSE r[2]
        ly1 == IF r[3] < 0 THEN r[3] + a ELSE r[3]
    IN  <<r[1], lx1, ly1>>

\* (x * y) % m for 0 <= x, y and m > 0, computed by doubling, so that no
\* intermediate value exceeds 2 * m (Python's integers are unbounded)
RECURSIVE MulMod(_, _, _)
MulMod(x, y, m) ==
    IF y = 0 THEN 0
    ELSE LET h == MulMod(x, y \div 2, m)
             t == (h + h) % m
         IN  IF y % 2 = 1 THEN (t + (x % m)) % m ELSE t

\* ------------------------------------------------------- calculate_keys
calculate_keys(pp, qq) ==
    LET phi_n == (pp - 1) * (qq - 1)
        ee    == E
        r     == extended_gcd(ee, phi_n)
    IN  IF r[1] # 1 THEN [err |-> "not relatively prime", e |-> ee, d |-> None]
        ELSE IF r[2] < 0 THEN [err |-> "negative", e |-> ee, d |-> r[2]]
        ELSE IF MulMod(ee, r[2], phi_n) # 1
             THEN [err |-> "not mult. inv.", e |-> ee, d |-> r[2]]
        ELSE [err |-> "", e |-> ee, d |-> r[2]]

\* ------------------------------------------------------- key entities
PublicKey(n, ee) == [kind |-> "PublicKey", n |-> n, e |-> ee]

\* PrivateKey.__init__ with exp1 derived from q instead of p
PrivateKey_exp1_from_q(n, ee, dd, pp, qq, exp1, exp2, coef) ==
    [kind |-> "PrivateKey", n |-> n, e |-> ee, d |-> dd, p |-> pp, q |-> qq,
     exp1 |-> IF exp1 = None THEN dd % (qq - 1) ELSE exp1,
     exp2 |-> IF exp1 = None THEN dd % (qq - 1) ELSE exp2,
     coef |-> IF coef = None THEN extended_gcd(qq, pp)[2] ELSE coef]

\* PrivateKey.__init__
PrivateKey(n, ee, dd, pp, qq, exp1, exp2, coef) ==
    [kind |-> "PrivateKey", n |-> n, e |-> ee, d |-> dd, p |-> pp, q |-> qq,
     exp1 |-> IF exp1 = None THEN dd % (pp - 1) ELSE exp1,
     exp2 |-> IF exp1 = None THEN dd % (qq - 1) ELSE exp2,
     coef |-> IF coef = None THEN extended_gcd(qq, pp)[2] ELSE coef]

NoKey  == [kind |-> "None"]
NoFile == [kind |-> "None"]
NoCall == [op |-> "", cls |-> "", format |-> ""]

Max(x, y) == IF x >= y THEN x ELSE y
Min(x, y) == IF x <= y THEN x ELSE y

\* ------------------------------------------------------- find_p_q
shift == nbits \div 16
pbits == nbits + shift
qbits == nbits - shift
total_bits == nbits * 2

\* find_p_q's inner function is_acceptable(p, q); it reads accurate and
\* total_bits of the enclosing call
is_acceptable(pp, qq) ==
    IF pp = qq THEN FALSE
    ELSE IF ~accurate THEN TRUE
    ELSE total_bits = bit_size(pp * qq)

\* the values of the SpecMath and SpecCodec variables while unused
MathIdle  == fn = "" /\ args = <<>> /\ called = FALSE /\ ret = <<>>
CodecIdle == /\ cpc = "idle" /\ cargs = <<>> /\ key = NoKey /\ keyfile = NoFile
             /\ fileInts = <<>> /\ savedAs = "" /\ call = NoCall /\ method = ""
             /\ loaded = NoKey /\ cerr = ""

\* a caller is about to call newkeys(nk_nbits, nk_accurate)
Init ==
    /\ pc = "newkeys"
    /\ nk_nbits \in (MinKeyBits - 1)..MaxNbits
    /\ nk_accurate \in BOOLEAN
    /\ nbits = 0 /\ accurate = TRUE
    /\ p = 0 /\ q = 0 /\ change_p = FALSE /\ tries = 0 /\ log = ""
    /\ e = 0 /\ d = 0 /\ pub = NoKey /\ priv = NoKey /\ raised = ""
    /\ MathIdle /\ CodecIdle

\* newkeys' size check and the calls newkeys -> gen_keys(nbits) ->
\* find_p_q(nbits // 2, accurate): gen_keys is called without accurate, so
\* its parameter takes its default, True
newkeys_enter ==
    /\ pc = "newkeys"
    /\ IF nk_nbits < MinKeyBits
       THEN /\ raised' = "Key too small"
            /\ pc' = "raised"
            /\ UNCHANGED <<nbits, accurate>>
       ELSE /\ nbits' = nk_nbits \div 2
            /\ accurate' = TRUE
            /\ pc' = "find_p"
            /\ UNCHANGED raised
    /\ UNCHANGED <<nk_nbits, nk_accurate, p, q, change_p, tries, log, e, d,
                   pub, priv, mathVars, codecVars>>

\* p = rsa.prime.getprime(pbits)
find_p ==
    /\ pc = "find_p"
    /\ \E x \in getprime(pbits) : p' = x
    /\ log' = "Finding p"
    /\ pc' = "find_q"
    /\ UNCHANGED <<nk_nbits, nk_accurate, nbits, accurate, q, change_p, tries,
                   e, d, pub, priv, raised, mathVars, codecVars>>

\* q = rsa.prime.getprime(qbits); change_p = False; tries = 0
find_q ==
    /\ pc = "find_q"
    /\ \E x \in getprime(qbits) : q' = x
    /\ log' = "Finding q"
    /\ change_p' = FALSE
    /\ tries' = 0
    /\ pc' = "loop"
    /\ UNCHANGED <<nk_nbits, nk_accurate, nbits, accurate, p, e, d, pub, priv,
                   raised, mathVars, codecVars>>

\* the loop body with the flag left as it is
loop_body_no_toggle ==
    /\ pc = "loop"
    /\ ~is_acceptable(p, q)
    /\ tries < MaxTries
    /\ tries' = tries + 1
    /\ IF change_p
       THEN /\ log' = "find another p"
            /\ \E x \in getprime(pbits) : p' = x
            /\ UNCHANGED q
       ELSE /\ log' = "find another q"
            /\ \E x \in getprime(qbits) : q' = x
            /\ UNCHANGED p
    /\ UNCHANGED change_p
    /\ UNCHANGED <<pc, nk_nbits, nk_accurate, nbits, accurate, e, d, pub, priv,
                   raised, mathVars, codecVars>>

\* one iteration of "while not is_acceptable(p, q)"
loop_body ==
    /\ pc = "loop"
    /\ ~is_acceptable(p, q)
    /\ tries < MaxTries
    /\ tries' = tries + 1
    /\ IF change_p
       THEN /\ log' = "find another p"
            /\ \E x \in getprime(pbits) : p' = x
            /\ UNCHANGED q
       ELSE /\ log' = "find another q"
            /\ \E x \in getprime(qbits) : q' = x
            /\ UNCHANGED p
    /\ change_p' = ~change_p
    /\ UNCHANGED <<pc, nk_nbits, nk_accurate, nbits, accurate, e, d, pub, priv,
                   raised, mathVars, codecVars>>

\* the loop condition fails: return (max(p, q), min(p, q)) to gen_keys
loop_exit ==
    /\ pc = "loop"
    /\ is_acceptable(p, q)
    /\ p' = Max(p, q)
    /\ q' = Min(p, q)
    /\ pc' = "calculate_keys"
    /\ UNCHANGED <<nk_nbits, nk_accurate, nbits, accurate, change_p, tries, log,
                   e, d, pub, priv, raised, mathVars, codecVars>>

\* gen_keys: (e, d) = calculate_keys(p, q, nbits // 2)
gen_keys_calculate ==
    /\ pc = "calculate_keys"
    /\ LET r == calculate_keys(p, q)
       IN  IF r.err # ""
           THEN /\ raised' = r.err
                /\ pc' = "raised"
                /\ UNCHANGED <<e, d>>
           ELSE /\ e' = r.e
                /\ d' = r.d
                /\ pc' = "construct"
                /\ UNCHANGED raised
    /\ UNCHANGED <<nk_nbits, nk_accurate, nbits, accurate, p, q, change_p, tries,
                   log, pub, priv, mathVars, codecVars>>

\* newkeys: n = p * q; return (PublicKey(n, e), PrivateKey(n, e, d, p, q))
newkeys_return ==
    /\ pc = "construct"
    /\ LET n == p * q
       IN  /\ pub' = PublicKey(n, e)
           /\ priv' = PrivateKey(n, e, d, p, q, None, None, None)
    /\ pc' = "done"
    /\ UNCHANGED <<nk_nbits, nk_accurate, nbits, accurate, p, q, change_p, tries,
                   log, e, d, raised, mathVars, codecVars>>

Next ==
    \/ newkeys_enter
    \/ find_p
    \/ find_q
    \/ loop_body
    \/ loop_exit
    \/ gen_keys_calculate
    \/ newkeys_return

Spec == Init /\ [][Next]_vars

\* ====================================================================
\* Claims about one call of newkeys (Spec)
\* ====================================================================

\* C1: for every nbits >= 16, even or odd, and accurate = true, the primes of
\* the private key newkeys returns are distinct, p > q, and p*q has exactly
\* nbits bits.
C1_ModulusHasRequestedSize ==
    (pc = "done" /\ nk_accurate) =>
        /\ priv.p # priv.q
        /\ priv.p > priv.q
        /\ bit_size(priv.p * priv.q) = nk_nbits

\* C2: every PrivateKey newkeys returns has (e*d) mod phi = 1,
\* exp1 = d mod (p-1), exp2 = d mod (q-1) and (coef*q) mod p = 1.
C2_GeneratedKeyArithmetic ==
    pc = "done" =>
        LET phi == (priv.p - 1) * (priv.q - 1)
        IN  /\ MulMod(priv.e, priv.d, phi) = 1
            /\ priv.exp1 = priv.d % (priv.p - 1)
            /\ priv.exp2 = priv.d % (priv.q - 1)
            /\ (priv.coef * priv.q) % priv.p = 1

\* newkeys returned a key whose pair was resampled on the way
C2_Witness ==
    /\ pc = "done" /\ tries > 0
    /\ priv.n = priv.p * priv.q /\ priv.d > 1 /\ priv.coef > 1

\* C8: with newkeys(nbits, accurate = false) a drawn pair with p # q is
\* accepted without resampling: from the loop test the call goes on to
\* calculate_keys with that pair.
C8_InaccurateAcceptsDistinctPair ==
    [][(pc = "loop" /\ ~nk_accurate /\ p # q) => pc' = "calculate_keys"]_vars

\* C9: every failed acceptability check redraws exactly one of p, q from the
\* prime oracle and leaves the other unchanged, never the same one as the
\* iteration before; the loop is left only with an acceptable pair.
C9_AlternateRedraw ==
    [][pc = "loop" =>
        \/ /\ pc' = "loop"
           /\ ~is_acceptable(p, q)
           /\ \/ /\ log' = "find another p" /\ log # "find another p"
                 /\ p' \in getprime(pbits) /\ q' = q
              \/ /\ log' = "find another q" /\ log # "find another q"
                 /\ q' \in getprime(qbits) /\ p' = p
        \/ /\ pc' = "calculate_keys"
           /\ is_acceptable(p, q)]_vars

\* the loop was left after redrawing q, then p, then q again
C9_Witness ==
    pc = "calculate_keys" /\ tries >= 3 /\ log = "find another q"

\* ====================================================================
\* The pure functions (SpecMath)
\* ====================================================================

GenIdle ==
    /\ pc = "idle" /\ nk_nbits = 0 /\ nk_accurate = TRUE
    /\ nbits = 0 /\ accurate = TRUE
    /\ p = 0 /\ q = 0 /\ change_p = FALSE /\ tries = 0 /\ log = ""
    /\ e = 0 /\ d = 0 /\ pub = NoKey /\ priv = NoKey /\ raised = ""

\* a prime p with E = 65537 dividing p - 1
BigPrime == 14 * E + 1

CalcPrimes == {n \in 2..MaxCalcPrime : IsPrime(n)} \cup {BigPrime}

\* a caller is about to call extended_gcd(a, b) on positive integers, or
\* calculate_keys(p, q) on distinct primes
MathInit ==
    /\ GenIdle /\ CodecIdle
    /\ called = FALSE /\ ret = <<>>
    /\ \/ /\ fn = "extended_gcd"
          /\ args \in (1..MaxGcdArg) \X (1..MaxGcdArg)
       \/ /\ fn = "calculate_keys"
          /\ args \in {pq \in CalcPrimes \X CalcPrimes : pq[1] # pq[2]}

call_extended_gcd ==
    /\ fn = "extended_gcd" /\ ~called
    /\ called' = TRUE
    /\ ret' = extended_gcd(args[1], args[2])
    /\ UNCHANGED <<fn, args, genVars, codecVars>>

call_calculate_keys ==
    /\ fn = "calculate_keys" /\ ~called
    /\ called' = TRUE
    /\ ret' = calculate_keys(args[1], args[2])
    /\ UNCHANGED <<fn, args, genVars, codecVars>>

MathNext == call_extended_gcd \/ call_calculate_keys

SpecMath == MathInit /\ [][MathNext]_vars

\* the greatest common divisor, by Euclid's algorithm
RECURSIVE Gcd(_, _)
Gcd(a, b) == IF b = 0 THEN a ELSE Gcd(b, a % b)

C10_OnlyNotCoprimeFailure ==
    (fn = "calculate_keys" /\ called) =>
        LET phi == (args[1] - 1) * (args[2] - 1)
            g   == Gcd(E, phi)
        IN  /\ ret.err \in {"", "not relatively prime"}
            /\ (ret.err = "not relatively prime") <=> (g # 1)
            /\ ret.err = "" => (ret.e = E /\ 0 <= ret.d /\ ret.d < phi)

\* calculate_keys succeeded on a pair whose raw coefficient was negative,
\* with phi above e
C10_Witness ==
    /\ fn = "calculate_keys" /\ called /\ ret.err = ""
    /\ (args[1] - 1) * (args[2] - 1) > E
    /\ egcd_raw(E, (args[1] - 1) * (args[2] - 1))[2] < 0

\* calculate_keys refused a pair with E dividing phi
C10_NotCoprimeReached ==
    fn = "calculate_keys" /\ called /\ ret.err = "not relatively prime"

\* ====================================================================
\* Keys and files (SpecCodec)
\* ====================================================================

\* ------------------------------------------------ the DER codec (pyasn1)
\* the base-256 digits of v >= 0, most significant first
RECURSIVE Base256(_)
Base256(v) == IF v < 256 THEN <<v>> ELSE Append(Base256(v \div 256), v % 256)

\* the content octets of a non-negative INTEGER: two's complement, so a
\* leading zero octet when the top bit of the first digit is set
IntOctets(v) ==
    LET ds == Base256(v) IN IF ds[1] >= 128 THEN <<0>> \o ds ELSE ds

\* tag 2, length, content
der_integer(v) == LET os == IntOctets(v) IN <<2, Len(os)>> \o os

RECURSIVE der_integers(_)
der_integers(ints) ==
    IF ints = <<>> THEN <<>> ELSE der_integer(Head(ints)) \o der_integers(Tail(ints))

\* encoder.encode of a SEQUENCE of INTEGERs: tag 48, length, content (every
\* file of the model is shorter than 128 octets: the short length form)
der_encode(ints) == LET body == der_integers(ints) IN <<48, Len(body)>> \o body

RECURSIVE FromOctets(_, _)
FromOctets(os, acc) ==
    IF os = <<>> THEN acc ELSE FromOctets(Tail(os), acc * 256 + Head(os))

RECURSIVE der_parse_integers(_)
der_parse_integers(bs) ==
    IF Len(bs) < 2 THEN <<>>
    ELSE LET l == bs[2]
         IN  <<FromOctets(SubSeq(bs, 3, 2 + l), 0)>>
                 \o der_parse_integers(SubSeq(bs, 3 + l, Len(bs)))

\* decoder.decode of a SEQUENCE of INTEGERs
der_decode(bs) == der_parse_integers(SubSeq(bs, 3, 2 + bs[2]))

\* ------------------------------------------------ the PEM envelope (rsa.pem)
\* base64 as 6-bit digits, 64 standing for the padding character
RECURSIVE b64encode(_)
b64encode(bs) ==
    IF bs = <<>> THEN <<>>
    ELSE IF Len(bs) = 1
         THEN <<bs[1] \div 4, (bs[1] % 4) * 16, 64, 64>>
    ELSE IF Len(bs) = 2
         THEN <<bs[1] \div 4, (bs[1] % 4) * 16 + bs[2] \div 16, (bs[2] % 16) * 4, 64>>
    ELSE <<bs[1] \div 4, (bs[1] % 4) * 16 + bs[2] \div 16,
           (bs[2] % 16) * 4 + bs[3] \div 64, bs[3] % 64>>
             \o b64encode(SubSeq(bs, 4, Len(bs)))

RECURSIVE b64decode(_)
b64decode(ss) ==
    IF Len(ss) < 4 THEN <<>>
    ELSE IF ss[3] = 64
         THEN <<ss[1] * 4 + ss[2] \div 16>>
    ELSE IF ss[4] = 64
         THEN <<ss[1] * 4 + ss[2] \div 16, (ss[2] % 16) * 16 + ss[3] \div 4>>
    ELSE <<ss[1] * 4 + ss[2] \div 16, (ss[2] % 16) * 16 + ss[3] \div 4,
           (ss[3] % 4) * 64 + ss[4]>>
             \o b64decode(SubSeq(ss, 5, Len(ss)))

\* a file holding DER octets
DerFile(bs) == [kind |-> "DER", body |-> bs]

\* rsa.pem.save_pem(contents, pem_marker): BEGIN / END lines around base64
save_pem(bs, marker) == [kind |-> "PEM", marker |-> marker, body |-> b64encode(bs)]

Ok(v)    == [err |-> "", val |-> v]
Fail(ex) == [err |-> ex, val |-> <<>>]

\* rsa.pem.load_pem(contents, pem_marker): the octets between the marker lines
load_pem(file, marker) ==
    IF file.kind = "PEM" /\ file.marker = marker
    THEN Ok(b64decode(file.body))
    ELSE Fail("No PEM start marker")

\* ------------------------------------------------ PublicKey
PublicKey_load_pkcs1_der(bs) ==
    LET as_ints == der_decode(bs)
    IN  IF Len(as_ints) = 2 THEN Ok(PublicKey(as_ints[1], as_ints[2]))
        ELSE Fail("TypeError")

PublicKey_save_pkcs1_der(k) == der_encode(<<k.n, k.e>>)

\* ------------------------------------------------ PrivateKey
\* cls(*as_ints): the arguments by position, the missing ones at their default
PrivateKey_from(as_ints) ==
    LET a(i) == IF i <= Len(as_ints) THEN as_ints[i] ELSE None
    IN  PrivateKey(a(1), a(2), a(3), a(4), a(5), a(6), a(7), a(8))

\* PrivateKey.load_pkcs1_der without the version check
PrivateKey_load_pkcs1_der_any_version(bs) ==
    LET priv_   == der_decode(bs)
        as_ints == SubSeq(priv_, 2, Min(9, Len(priv_)))
    IN  IF Len(as_ints) \in 5..8 THEN Ok(PrivateKey_from(as_ints))
        ELSE Fail("TypeError")

PrivateKey_load_pkcs1_der(bs) ==
    LET priv_   == der_decode(bs)
        as_ints == SubSeq(priv_, 2, Min(9, Len(priv_)))
    IN  IF priv_[1] # 0 THEN Fail("version != 0")
        ELSE IF Len(as_ints) \in 5..8 THEN Ok(PrivateKey_from(as_ints))
        ELSE Fail("TypeError")

\* PrivateKey.save_pkcs1_der with exponent1 and exponent2 laid out in the
\* other order
PrivateKey_save_pkcs1_der_swapped(k) ==
    der_encode(<<0, k.n, k.e, k.d, k.p, k.q, k.exp2, k.exp1, k.coef>>)

PrivateKey_save_pkcs1_der(k) ==
    der_encode(<<0, k.n, k.e, k.d, k.p, k.q, k.exp1, k.exp2, k.coef>>)

\* ------------------------------------------------ both classes
pem_marker(cls) == IF cls = "PublicKey" THEN "RSA PUBLIC KEY" ELSE "RSA PRIVATE KEY"

\* cls.load_pkcs1_der(keyfile); the decoder rejects what is not DER
load_pkcs1_der(cls, file) ==
    IF file.kind # "DER" THEN Fail("decoder")
    ELSE IF cls = "PublicKey" THEN PublicKey_load_pkcs1_der(file.body)
    ELSE PrivateKey_load_pkcs1_der(file.body)

\* cls.load_pkcs1_pem(keyfile)
load_pkcs1_pem(cls, file) ==
    LET der == load_pem(file, pem_marker(cls))
    IN  IF der.err # "" THEN der ELSE load_pkcs1_der(cls, DerFile(der.val))

\* whether every field of the key is an integer; setComponentByName(name,
\* None) leaves the component without a value and the encoder refuses it
AllFieldsSet(k) ==
    k.kind = "PrivateKey" => (k.exp1 # None /\ k.exp2 # None /\ k.coef # None)

\* self.save_pkcs1_der()
save_pkcs1_der(k) ==
    IF ~AllFieldsSet(k) THEN Fail("encoder")
    ELSE IF k.kind = "PublicKey" THEN Ok(DerFile(PublicKey_save_pkcs1_der(k)))
    ELSE Ok(DerFile(PrivateKey_save_pkcs1_der(k)))

\* self.save_pkcs1_pem()
save_pkcs1_pem(k) ==
    LET der == save_pkcs1_der(k)
    IN  IF der.err # "" THEN der ELSE Ok(save_pem(der.val.body, pem_marker(k.kind)))

\* ------------------------------------------------ AbstractKey: dispatch
\* the keys of the methods dictionary
methods == {"PEM", "DER"}

\* the character codes of the keys, for Python's string comparison
ord(s) == IF s = "PEM" THEN <<80, 69, 77>> ELSE <<68, 69, 82>>

RECURSIVE seq_less(_, _)
seq_less(u, v) ==
    IF v = <<>> THEN FALSE
    ELSE IF u = <<>> THEN TRUE
    ELSE IF Head(u) # Head(v) THEN Head(u) < Head(v)
    ELSE seq_less(Tail(u), Tail(v))

\* sorted(...), largest first
RECURSIVE sorted_descending(_)
sorted_descending(S) ==
    IF S = {} THEN <<>>
    ELSE LET m == CHOOSE x \in S : \A y \in S \ {x} : seq_less(ord(y), ord(x))
         IN  <<m>> \o sorted_descending(S \ {m})

\* sorted(methods.keys())
RECURSIVE sorted(_)
sorted(S) ==
    IF S = {} THEN <<>>
    ELSE LET m == CHOOSE x \in S : \A y \in S \ {x} : seq_less(ord(x), ord(y))
         IN  <<m>> \o sorted(S \ {m})

\* ', '.join(...)
RECURSIVE join(_)
join(strs) ==
    IF strs = <<>> THEN ""
    ELSE IF Len(strs) = 1 THEN strs[1]
    ELSE strs[1] \o ", " \o join(Tail(strs))

\* 'Unsupported format: %r, try one of %s' % (format, formats)
UnsupportedFormat(format) ==
    "Unsupported format: '" \o format \o "', try one of " \o join(sorted(methods))

\* AbstractKey.load_pkcs1(keyfile, format): the method chosen and its result
load_pkcs1(cls, file, format) ==
    IF format \notin methods
    THEN [method |-> "", res |-> Fail(UnsupportedFormat(format))]
    ELSE IF format = "PEM"
         THEN [method |-> "load_pkcs1_pem", res |-> load_pkcs1_pem(cls, file)]
    ELSE [method |-> "load_pkcs1_der", res |-> load_pkcs1_der(cls, file)]

\* AbstractKey.save_pkcs1(format): the method chosen and its result
save_pkcs1(k, format) ==
    IF format \notin methods
    THEN [method |-> "", res |-> Fail(UnsupportedFormat(format))]
    ELSE IF format = "PEM"
         THEN [method |-> "save_pkcs1_pem", res |-> save_pkcs1_pem(k)]
    ELSE [method |-> "save_pkcs1_der", res |-> save_pkcs1_der(k)]


\* ------------------------------------------------ the caller's inputs
NVals   == {15, 40000}
EVals   == {3, E}
DVals   == {7, 200}
PVals   == {5, 131}
QVals   == {3, 128}
\* exp1, exp2, coef: omitted, or supplied
OptVals == {None, 6, 255}

\* the format selectors callers pass
Formats == {"PEM", "DER", "XML", "pem"}

\* the integer sequences of the DER files received from outside: private-key
\* sequences of every version, with all eight fields, with the five
\* mandatory ones only, and public-key sequences
FileSeqs ==
    {<<v>> \o f : v \in 0..MaxVersion,
                  f \in [1..8 -> {2, 200}] \cup {<<1, 2, 3, 4, 5, 6, 7, 8>>,
                                                  <<3247, 65537, 833, 191, 17>>}}
      \cup (NVals \X EVals)

Envelopes == {"DER", "RSA PRIVATE KEY", "RSA PUBLIC KEY"}

CodecInit ==
    /\ GenIdle /\ MathIdle
    /\ cpc = "start" /\ cargs = <<>> /\ key = NoKey /\ keyfile = NoFile
    /\ fileInts = <<>> /\ savedAs = "" /\ call = NoCall /\ method = ""
    /\ loaded = NoKey /\ cerr = ""

\* key = PrivateKey(n, e, d, p, q[, exp1][, exp2][, coef])
construct_private ==
    /\ cpc = "start"
    /\ \E a \in NVals \X EVals \X DVals \X PVals \X QVals
                   \X OptVals \X OptVals \X OptVals :
          /\ cargs' = a
          /\ key' = PrivateKey(a[1], a[2], a[3], a[4], a[5], a[6], a[7], a[8])
    /\ cpc' = "key"
    /\ UNCHANGED <<keyfile, fileInts, savedAs, call, method, loaded, cerr,
                   genVars, mathVars>>

\* key = PublicKey(n, e)
construct_public ==
    /\ cpc = "start"
    /\ \E a \in NVals \X EVals :
          /\ cargs' = a
          /\ key' = PublicKey(a[1], a[2])
    /\ cpc' = "key"
    /\ UNCHANGED <<keyfile, fileInts, savedAs, call, method, loaded, cerr,
                   genVars, mathVars>>

\* a key file written by someone else arrives, DER or PEM
receive_file ==
    /\ cpc = "start"
    /\ \E ints \in FileSeqs, env \in Envelopes :
          /\ fileInts' = ints
          /\ keyfile' = IF env = "DER" THEN DerFile(der_encode(ints))
                        ELSE save_pem(der_encode(ints), env)
    /\ cpc' = "file"
    /\ UNCHANGED <<cargs, key, savedAs, call, method, loaded, cerr,
                   genVars, mathVars>>

\* keyfile = key.save_pkcs1(format)
do_save_pkcs1 ==
    /\ cpc = "key"
    /\ \E format \in Formats :
          LET r == save_pkcs1(key, format)
          IN  /\ call' = [op |-> "save_pkcs1", cls |-> key.kind, format |-> format]
              /\ method' = r.method
              /\ cerr' = r.res.err
              /\ IF r.res.err = ""
                 THEN /\ keyfile' = r.res.val
                      /\ savedAs' = format
                      /\ cpc' = "file"
                 ELSE /\ cpc' = "raised"
                      /\ UNCHANGED <<keyfile, savedAs>>
    /\ UNCHANGED <<cargs, key, fileInts, loaded, genVars, mathVars>>

\* loaded = cls.load_pkcs1(keyfile, format)
do_load_pkcs1 ==
    /\ cpc = "file"
    /\ \E cls \in {"PublicKey", "PrivateKey"}, format \in Formats :
          LET r == load_pkcs1(cls, keyfile, format)
          IN  /\ call' = [op |-> "load_pkcs1", cls |-> cls, format |-> format]
              /\ method' = r.method
              /\ cerr' = r.res.err
              /\ IF r.res.err = ""
                 THEN /\ loaded' = r.res.val
                      /\ cpc' = "loaded"
                 ELSE /\ cpc' = "raised"
                      /\ UNCHANGED loaded
    /\ UNCHANGED <<cargs, key, keyfile, fileInts, savedAs, genVars, mathVars>>

CodecNext ==
    \/ construct_private
    \/ construct_public
    \/ receive_file
    \/ do_save_pkcs1
    \/ do_load_pkcs1

SpecCodec == CodecInit /\ [][CodecNext]_vars

\* C3: PrivateKey construction treats exp1, exp2 and coef independently: an
\* omitted field is computed from d, p, q (exp1 = d mod (p-1), exp2 = d mod
\* (q-1), coef = q^-1 mod p), a supplied field is stored verbatim.
C3_DerivedFieldsIndependent ==
    (cpc = "key" /\ key.kind = "PrivateKey") =>
        /\ key.exp1 = (IF cargs[6] = None THEN cargs[3] % (cargs[4] - 1) ELSE cargs[6])
        /\ key.exp2 = (IF cargs[7] = None THEN cargs[3] % (cargs[5] - 1) ELSE cargs[7])
        /\ IF cargs[8] = None
           THEN 0 <= key.coef /\ key.coef < cargs[4]
                /\ (key.coef * cargs[5]) % cargs[4] = 1
           ELSE key.coef = cargs[8]

\* C4: a key saved with save_pkcs1(format) and loaded by its own class with
\* load_pkcs1(file, format), format DER or PEM, comes back equal field by
\* field, exp1, exp2 and coef as the saved key held them.
C4_RoundTrip ==
    (/\ call.op = "load_pkcs1" /\ savedAs # ""
     /\ call.format = savedAs /\ call.cls = key.kind) =>
        /\ cpc = "loaded"
        /\ cerr = ""
        /\ loaded = key

\* a private key with supplied, underived exp1, exp2, coef went through PEM
C4_Witness ==
    /\ cpc = "loaded" /\ savedAs = "PEM" /\ call.format = "PEM"
    /\ key.kind = "PrivateKey" /\ call.cls = "PrivateKey"
    /\ cargs[6] = 6 /\ cargs[7] = 255 /\ cargs[8] = 6
    /\ loaded.exp1 = 6 /\ loaded.exp2 = 255 /\ loaded.coef = 6

\* the private-key decode was applied to a received nine-integer sequence
PrivateDecodeOfReceived ==
    /\ call.op = "load_pkcs1" /\ call.cls = "PrivateKey"
    /\ Len(fileInts) = 9
    /\ \/ call.format = "DER" /\ keyfile.kind = "DER"
       \/ /\ call.format = "PEM" /\ keyfile.kind = "PEM"
          /\ keyfile.marker = "RSA PRIVATE KEY"

\* C6: decoding a private-key sequence whose version is not 0 fails with the
\* version error and constructs no key; with version 0 the key is built from
\* the next eight elements in the order n, e, d, p, q, exp1, exp2, coef.
C6_VersionCheckAndFieldOrder ==
    PrivateDecodeOfReceived =>
        IF fileInts[1] # 0
        THEN cpc = "raised" /\ cerr = "version != 0" /\ loaded = NoKey
        ELSE /\ cpc = "loaded" /\ cerr = ""
             /\ loaded = [kind |-> "PrivateKey",
                          n |-> fileInts[2], e |-> fileInts[3], d |-> fileInts[4],
                          p |-> fileInts[5], q |-> fileInts[6],
                          exp1 |-> fileInts[7], exp2 |-> fileInts[8],
                          coef |-> fileInts[9]]

\* a version 2 file was refused
C6_Witness ==
    PrivateDecodeOfReceived /\ fileInts[1] = 2 /\ cerr = "version != 0"

\* the version 0 file <<0, 1, ..., 8>> was decoded
C6_Version0Reached ==
    PrivateDecodeOfReceived /\ fileInts = <<0, 1, 2, 3, 4, 5, 6, 7, 8>>
        /\ loaded.exp1 = 6 /\ loaded.coef = 8

\* C7: load_pkcs1 and save_pkcs1 with a selector outside {PEM, DER} raise the
\* unsupported-format error listing "DER, PEM", dispatch to no method, build
\* no key and write no file; with PEM or DER exactly that method is called.
C7_FormatDispatch ==
    call.op # "" =>
        IF call.format \notin {"PEM", "DER"}
        THEN /\ cpc = "raised"
             /\ method = ""
             /\ cerr = "Unsupported format: '" \o call.format
                          \o "', try one of DER, PEM"
             /\ loaded = NoKey
             /\ call.op = "save_pkcs1" => keyfile = NoFile
        ELSE method = call.op \o (IF call.format = "PEM" THEN "_pem" ELSE "_der")

\* load_pkcs1(bytes, "XML") was refused
C7_Witness ==
    /\ call.op = "load_pkcs1" /\ call.format = "XML" /\ cpc = "raised"
    /\ cerr = "Unsupported format: 'XML', try one of DER, PEM"

====
